---- MODULE Spec2Model ----
(***************************************************************************)
(* Flaskr: the request handling of src/flaskr/auth.py and                  *)
(* src/flaskr/blog.py over the user and post tables, the signed client     *)
(* session and the request-scoped context g.                               *)
(*                                                                         *)
(* One request is in flight at a time.  A request runs the                 *)
(* before_app_request hook (load_logged_in_user), then the routed view     *)
(* (wrapped by login_required where the source decorates it), then the     *)
(* teardown hook (close_db).                                               *)
(***************************************************************************)
EXTENDS Integers, Sequences, FiniteSets, TLC

\* ------------------------------------------------------------------ bounds
MaxPostId == 2      \* post ids are drawn from 1..MaxPostId
MaxClock == 1       \* timestamps are drawn from 0..MaxClock
NumSalts == 2       \* salts drawn by generate_password_hash

Clients == {"c1"}
Usernames == {"alice", "bob"}
Passwords == {"pw1", "pw2"}
Titles == {"Hi", "Yo"}
Bodies == {"", "body"}
Salts == 1..NumSalts
PostIds == 1..MaxPostId

\* Python's None, as the empty option; Some(x) is a value that is present.
None == <<>>
Some(x) == <<x>>
Val(o) == o[1]

VARIABLES
    users,      \* table user: set of rows [id, username, password]
    posts,      \* table post: set of rows [id, title, body, created, author_id]
    clock,      \* the store's CURRENT_TIMESTAMP at the last insert
    session,    \* per client, the session dict: a set of <<key, value>> pairs
    pc,         \* "idle", "view" (hook has run) or "teardown" (view returned)
    req,        \* the request in flight
    g_user,     \* g.user
    g_db,       \* g.db: None or the handle of the request's connection
    conns,      \* status of the connections opened since the request began
    resp,       \* the response of the view
    workers,    \* concurrent handling: per worker, the state of its request
    txn         \* concurrent handling: the open write transaction, or None

vars == <<users, posts, clock, session, pc, req, g_user, g_db, conns, resp,
          workers, txn>>

\* The variables of concurrent handling, which the handling of one request
\* at a time leaves alone.
cvars == <<workers, txn>>

\* --------------------------------------------------------------- requests
NoForm == [username |-> "", password |-> "", title |-> "", body |-> ""]
AuthForm(u, p) == [username |-> u, password |-> p, title |-> "", body |-> ""]
PostForm(t, b) == [username |-> "", password |-> "", title |-> t, body |-> b]

Request(c, e, m, i, f) ==
    [client |-> c, endpoint |-> e, method |-> m, id |-> i, form |-> f]

NoReq == Request("", "", "", 0, NoForm)

AuthForms == {AuthForm(u, p) : u \in Usernames \cup {""}, p \in Passwords \cup {""}}
PostForms == {PostForm(t, b) : t \in Titles \cup {""}, b \in Bodies}

\* The routes of the two blueprints.
Requests(c) ==
    {Request(c, "blog.index", "GET", 0, NoForm)}
    \cup {Request(c, "auth.logout", "GET", 0, NoForm)}
    \cup {Request(c, e, "GET", 0, NoForm) : e \in {"auth.register", "auth.login", "blog.create"}}
    \cup {Request(c, e, "POST", 0, f) : e \in {"auth.register", "auth.login"}, f \in AuthForms}
    \cup {Request(c, "blog.create", "POST", 0, f) : f \in PostForms}
    \cup {Request(c, "blog.update", "GET", i, NoForm) : i \in PostIds}
    \cup {Request(c, "blog.update", "POST", i, f) : i \in PostIds, f \in PostForms}
    \cup {Request(c, "blog.delete", "POST", i, NoForm) : i \in PostIds}

\* -------------------------------------------------------------- responses
NoFlash == <<>>
NoData == <<>>
NoResp == [code |-> 0, target |-> "", flash |-> NoFlash, data |-> NoData]
redirect(endpoint) ==
    [code |-> 302, target |-> endpoint, flash |-> NoFlash, data |-> NoData]
render_template(name, flashed) ==
    [code |-> 200, target |-> name, flash |-> flashed, data |-> NoData]
abort(code) == [code |-> code, target |-> "", flash |-> NoFlash, data |-> NoData]

\* ---------------------------------------------------------------- session
\* session.get(key): the value stored under key, or None.
session_get(s, key) ==
    IF \E kv \in s : kv[1] = key
    THEN Some((CHOOSE kv \in s : kv[1] = key)[2])
    ELSE None

\* session.clear() that leaves the dict as it is.
session_clear_keeps(s) == s

\* session.clear()
session_clear(s) == {}

\* session[key] = value
session_set(s, key, value) == {kv \in s : kv[1] # key} \cup {<<key, value>>}

\* flash(message): the message is queued in the session.
flash(s, message) == session_set(s, "_flashes", message)

\* get_flashed_messages(), which the rendered page calls: the queued
\* message is taken out of the session.
get_flashed_messages(s) ==
    [messages |-> session_get(s, "_flashes"),
     session |-> {kv \in s : kv[1] # "_flashes"}]

\* A login that keeps the user a session is already bound to.
login_session_keeps_first(s, user) ==
    IF session_get(s, "user_id") # None THEN s
    ELSE session_set(session_clear(s), "user_id", user.id)

\* session.clear(); session["user_id"] = user["id"]
login_session(s, user) == session_set(session_clear(s), "user_id", user.id)

\* A view that flashes its error and answers with a page that does not show
\* the queued messages.
render_leaves_queued(s, name, error) ==
    LET queued == IF error = None THEN s ELSE flash(s, Val(error))
    IN  [session |-> queued, resp |-> render_template(name, error)]

\* A view's flash(error), when it found an error, and its
\* render_template(name) on session dict s: the session it leaves and the
\* page, which shows the queued message.
render(s, name, error) ==
    LET queued == IF error = None THEN s ELSE flash(s, Val(error))
        got == get_flashed_messages(queued)
    IN  [session |-> got.session, resp |-> render_template(name, got.messages)]

\* ---------------------------------------------------------- password hash
\* The digest of a salted password, kept symbolic: one-way, and equal for two
\* inputs only when salt and password are both equal.
Digest(salt, password) == <<"digest", salt, password>>

\* generate_password_hash(password), with the salt it draws.
generate_password_hash(password, salt) ==
    [salt |-> salt, digest |-> Digest(salt, password)]

\* check_password_hash that accepts every password.
check_password_hash_accepts_all(pwhash, password) == TRUE

\* check_password_hash(pwhash, password): hash the submitted password the
\* same way as the stored hash and compare.
check_password_hash(pwhash, password) ==
    Digest(pwhash.salt, password) = pwhash.digest

\* ------------------------------------------------------------- connection
\* get_db() that connects on every call.
get_db_always_connects(ctx) ==
    [g_db |-> Some(Len(ctx.conns) + 1), conns |-> Append(ctx.conns, "open")]

\* get_db(): the connection cached on g, opened on first use.
get_db(ctx) ==
    IF ctx.g_db = None
    THEN [g_db |-> Some(Len(ctx.conns) + 1), conns |-> Append(ctx.conns, "open")]
    ELSE ctx

\* n successive calls of get_db() in one handler.
RECURSIVE get_db_calls(_, _)
get_db_calls(ctx, n) ==
    IF n = 0 THEN ctx ELSE get_db_calls(get_db(ctx), n - 1)

\* close_db(): pop g.db and close it if it was set.
close_db(ctx) ==
    IF ctx.g_db = None
    THEN ctx
    ELSE [g_db |-> None,
          conns |-> [ctx.conns EXCEPT ![Val(ctx.g_db)] = "closed"]]

\* connection.execute(...) on handle h: the statement runs only on an open
\* connection; a closed one raises ProgrammingError and stays closed.
execute(cs, h) ==
    IF cs[h] = "open" THEN "ok" ELSE "ProgrammingError: closed"

Ctx == [g_db |-> g_db, conns |-> conns]

\* The handler made n calls of get_db().
UseDb(n) ==
    LET c == get_db_calls(Ctx, n)
    IN  /\ g_db' = c.g_db
        /\ conns' = c.conns

\* ------------------------------------------------------------------ store
\* The select by id without its WHERE clause: fetchone() of any row.
SelectUserById_no_where(tbl, id) ==
    IF tbl = {} THEN None ELSE Some(CHOOSE u \in tbl : \A v \in tbl : u.id <= v.id)

\* SELECT * FROM user WHERE id = ?
SelectUserById(tbl, id) ==
    IF \E u \in tbl : u.id = id
    THEN Some(CHOOSE u \in tbl : u.id = id)
    ELSE None

\* SELECT ... FROM user WHERE username = ?
SelectUserByName(tbl, username) ==
    IF \E u \in tbl : u.username = username
    THEN Some(CHOOSE u \in tbl : u.username = username)
    ELSE None

\* The id the store gives a new user row: users are never deleted.
NextUserId(tbl) == Cardinality(tbl) + 1

\* INSERT INTO user (username, password) VALUES (?, ?)
InsertUser(tbl, username, pwhash) ==
    tbl \cup {[id |-> NextUserId(tbl), username |-> username, password |-> pwhash]}

\* The ids the store may give a new post row: any id no row holds.
FreePostIds(tbl) == PostIds \ {p.id : p \in tbl}

\* The insert with the post's own id bound to author_id.
InsertPost_author_is_post_id(tbl, id, now, title, body, author_id) ==
    tbl \cup {[id |-> id, title |-> title, body |-> body,
               created |-> now, author_id |-> id]}

\* INSERT INTO post (title, body, author_id) VALUES (?, ?, ?), with the id
\* and the created timestamp the store assigns.
InsertPost(tbl, id, now, title, body, author_id) ==
    tbl \cup {[id |-> id, title |-> title, body |-> body,
               created |-> now, author_id |-> author_id]}

\* The update without its WHERE clause.
UpdatePost_no_where(tbl, id, title, body) ==
    {[p EXCEPT !.title = title, !.body = body] : p \in tbl}

\* UPDATE post SET title = ?, body = ? WHERE id = ?
UpdatePost(tbl, id, title, body) ==
    {IF p.id = id THEN [p EXCEPT !.title = title, !.body = body] ELSE p : p \in tbl}

\* The delete without its WHERE clause.
DeletePost_no_where(tbl, id) == {}

\* The delete that removes no row.
DeletePost_keeps(tbl, id) == tbl

\* DELETE FROM post WHERE id = ?
DeletePost(tbl, id) == {p \in tbl : p.id # id}

\* post p JOIN user u ON p.author_id = u.id
Joined(p, u) ==
    [id |-> p.id, title |-> p.title, body |-> p.body, created |-> p.created,
     author_id |-> p.author_id, username |-> u.username]

JoinPostUser(ptbl, utbl) ==
    UNION {{Joined(p, u) : u \in {x \in utbl : x.id = p.author_id}} : p \in ptbl}

\* The orderings of rows that ORDER BY created ASC may return.
OrderByCreatedAsc(rows) ==
    {s \in [1..Cardinality(rows) -> rows] :
        /\ \A i, j \in DOMAIN s : i # j => s[i] # s[j]
        /\ \A i, j \in DOMAIN s : i < j => s[i].created <= s[j].created}

\* The orderings of rows that ORDER BY created DESC may return: every row
\* once, no row before one created later; rows created at the same time
\* come in either order.
OrderByCreatedDesc(rows) ==
    {s \in [1..Cardinality(rows) -> rows] :
        /\ \A i, j \in DOMAIN s : i # j => s[i] # s[j]
        /\ \A i, j \in DOMAIN s : i < j => s[i].created >= s[j].created}

\* The index query with ORDER BY created ASC.
list_posts_ascending(ptbl, utbl) == OrderByCreatedAsc(JoinPostUser(ptbl, utbl))

\* The results the SELECT of index may fetch.
list_posts(ptbl, utbl) == OrderByCreatedDesc(JoinPostUser(ptbl, utbl))

\* ------------------------------------------------------------ auth.py
\* login_required that always calls the view.
login_required_always_view(user) == "view"

\* login_required: the wrapped view redirects anonymous users to the login
\* page and calls the view otherwise.
login_required(user) == IF user = None THEN "redirect" ELSE "view"

\* ------------------------------------------------------------ blog.py
\* get_post with the author check left out.
get_post_no_author_check(id, check_author, user, ptbl, utbl) ==
    LET rows == {r \in JoinPostUser(ptbl, utbl) : r.id = id}
    IN  IF rows = {}
        THEN [code |-> 404, post |-> None]
        ELSE [code |-> 200, post |-> Some(CHOOSE r \in rows : TRUE)]

\* get_post that answers 403 before it looks whether the post exists.
get_post_forbidden_first(id, check_author, user, ptbl, utbl) ==
    LET rows == {r \in JoinPostUser(ptbl, utbl) : r.id = id}
    IN  IF check_author /\ (user = None \/ \A r \in rows : r.author_id # Val(user).id)
        THEN [code |-> 403, post |-> None]
        ELSE IF rows = {}
             THEN [code |-> 404, post |-> None]
             ELSE [code |-> 200, post |-> Some(CHOOSE r \in rows : TRUE)]

\* get_post with the author comparison inverted.
get_post_inverted(id, check_author, user, ptbl, utbl) ==
    LET rows == {r \in JoinPostUser(ptbl, utbl) : r.id = id}
    IN  IF rows = {}
        THEN [code |-> 404, post |-> None]
        ELSE LET post == CHOOSE r \in rows : TRUE
             IN  IF check_author /\ user # None /\ post.author_id = Val(user).id
                 THEN [code |-> 403, post |-> None]
                 ELSE [code |-> 200, post |-> Some(post)]

\* get_post that compares the post's own id with the user's id.
get_post_author_is_id(id, check_author, user, ptbl, utbl) ==
    LET rows == {r \in JoinPostUser(ptbl, utbl) : r.id = id}
    IN  IF rows = {}
        THEN [code |-> 404, post |-> None]
        ELSE LET post == CHOOSE r \in rows : TRUE
             IN  IF check_author
                 THEN IF user = None
                      THEN [code |-> 500, post |-> None]
                      ELSE IF post.id # Val(user).id
                           THEN [code |-> 403, post |-> None]
                           ELSE [code |-> 200, post |-> Some(post)]
                 ELSE [code |-> 200, post |-> Some(post)]

\* get_post(id, check_author) with g.user = user: the joined row, or the
\* abort it raises.  g.user["id"] on None is a TypeError (500).
get_post(id, check_author, user, ptbl, utbl) ==
    LET rows == {r \in JoinPostUser(ptbl, utbl) : r.id = id}
    IN  IF rows = {}
        THEN [code |-> 404, post |-> None]
        ELSE LET post == CHOOSE r \in rows : TRUE
             IN  IF check_author
                 THEN IF user = None
                      THEN [code |-> 500, post |-> None]
                      ELSE IF post.author_id # Val(user).id
                           THEN [code |-> 403, post |-> None]
                           ELSE [code |-> 200, post |-> Some(post)]
                 ELSE [code |-> 200, post |-> Some(post)]

\* ----------------------------------------------------- concurrent workers
\* The server's threads, each handling one request at a time. The requests
\* of one browser, which share its session, may be handled at the same time.
Workers == {"w1", "w2"}

\* A worker with no request: pc is "idle", "view" (hook has run), "execute"
\* (checks passed, write statement next), "commit" (write statement done)
\* or "teardown"; post is the row get_post returned.
IdleWorker ==
    [pc |-> "idle", req |-> NoReq, g_user |-> None, post |-> None,
     resp |-> NoResp]

\* The writing routes, with forms that pass validation.
ConcRequests(c) ==
    {Request(c, e, "POST", 0, AuthForm(u, "pw1")) :
        e \in {"auth.register", "auth.login"}, u \in Usernames}
    \cup {Request(c, "blog.create", "POST", 0, PostForm("Hi", ""))}
    \cup {Request(c, "blog.update", "POST", i, PostForm("Yo", "")) : i \in PostIds}
    \cup {Request(c, "blog.delete", "POST", i, NoForm) : i \in PostIds}

\* ------------------------------------------------------- request handling
\* A create that would insert needs an id the bounded id space still has.
Admissible(r) ==
    (r.endpoint = "blog.create" /\ r.method = "POST" /\ r.form.title # "")
        => FreePostIds(posts) # {}

\* The user load_logged_in_user puts on g.user for session dict s.
LoadedUser(s, utbl) ==
    LET user_id == session_get(s, "user_id")
    IN  IF user_id = None THEN None ELSE SelectUserById(utbl, Val(user_id))

\* A request arrives and the before_app_request hook runs on a fresh g.
load_logged_in_user ==
    /\ pc = "idle"
    /\ UNCHANGED cvars
    /\ \E c \in Clients : \E r \in Requests(c) :
        /\ Admissible(r)
        /\ req' = r
        /\ g_user' = LoadedUser(session[c], users)
        /\ LET ctx == get_db_calls([g_db |-> None, conns |-> <<>>],
                                   IF session_get(session[c], "user_id") = None
                                   THEN 0 ELSE 1)
           IN  g_db' = ctx.g_db /\ conns' = ctx.conns
    /\ pc' = "view"
    /\ resp' = NoResp
    /\ UNCHANGED <<users, posts, clock, session>>

\* The view of the request in flight flashes error, if any, and answers with
\* the page name.
Render(name, error) ==
    LET page == render(session[req.client], name, error)
    IN  /\ session' = [session EXCEPT ![req.client] = page.session]
        /\ resp' = page.resp

\* The wrapped view of login_required answered with the redirect.
GuardRedirect ==
    /\ resp' = redirect("auth.login")
    /\ UNCHANGED <<users, posts, clock, session, g_db, conns>>

\* register_error without the lookup of the username.
register_error_no_lookup(username, password, utbl) ==
    IF username = "" THEN Some("Username is required.")
    ELSE IF password = "" THEN Some("Password is required.")
    ELSE None

\* register_error that looks the username up before it checks the password.
register_error_lookup_first(username, password, utbl) ==
    IF username = "" THEN Some("Username is required.")
    ELSE IF SelectUserByName(utbl, username) # None
         THEN Some("User " \o username \o " is already registered.")
    ELSE IF password = "" THEN Some("Password is required.")
         ELSE None

\* The error register finds in the form, or None.
register_error(username, password, utbl) ==
    IF username = "" THEN Some("Username is required.")
    ELSE IF password = "" THEN Some("Password is required.")
    ELSE IF SelectUserByName(utbl, username) # None
         THEN Some("User " \o username \o " is already registered.")
         ELSE None

register ==
    /\ pc = "view"
    /\ UNCHANGED cvars
    /\ req.endpoint = "auth.register"
    /\ IF req.method = "POST"
       THEN LET username == req.form.username
                password == req.form.password
                error == register_error(username, password, users)
            IN  /\ UseDb(1)
                /\ IF error = None
                   THEN \E salt \in Salts :
                            /\ users' = InsertUser(users, username,
                                           generate_password_hash(password, salt))
                            /\ resp' = redirect("auth.login")
                            /\ session' = session
                   ELSE /\ users' = users
                        /\ Render("auth/register.html", error)
       ELSE /\ UseDb(0)
            /\ users' = users
            /\ Render("auth/register.html", None)
    /\ pc' = "teardown"
    /\ UNCHANGED <<posts, clock, req, g_user>>

\* login_error that reports a missing user as a wrong password.
login_error_one_message(user, password) ==
    IF user = None \/ ~check_password_hash(Val(user).password, password)
    THEN Some("Incorrect password.")
    ELSE None

\* The error login finds for the row selected by username, or None.
login_error(user, password) ==
    IF user = None THEN Some("Incorrect username.")
    ELSE IF ~check_password_hash(Val(user).password, password)
         THEN Some("Incorrect password.")
         ELSE None

login ==
    /\ pc = "view"
    /\ UNCHANGED cvars
    /\ req.endpoint = "auth.login"
    /\ IF req.method = "POST"
       THEN LET user == SelectUserByName(users, req.form.username)
                error == login_error(user, req.form.password)
            IN  /\ UseDb(1)
                /\ IF error = None
                   THEN /\ session' = [session EXCEPT ![req.client] =
                                login_session(@, Val(user))]
                        /\ resp' = redirect("index")
                   ELSE Render("auth/login.html", error)
       ELSE /\ UseDb(0)
            /\ Render("auth/login.html", None)
    /\ pc' = "teardown"
    /\ UNCHANGED <<users, posts, clock, req, g_user>>

logout ==
    /\ pc = "view"
    /\ UNCHANGED cvars
    /\ req.endpoint = "auth.logout"
    /\ session' = [session EXCEPT ![req.client] = session_clear(@)]
    /\ resp' = redirect("index")
    /\ pc' = "teardown"
    /\ UNCHANGED <<users, posts, clock, req, g_user, g_db, conns>>

index ==
    /\ pc = "view"
    /\ UNCHANGED cvars
    /\ req.endpoint = "blog.index"
    /\ UseDb(1)
    /\ LET page == render(session[req.client], "blog/index.html", None)
       IN  /\ session' = [session EXCEPT ![req.client] = page.session]
           /\ \E rows \in list_posts(posts, users) :
                 resp' = [page.resp EXCEPT !.data = rows]
    /\ pc' = "teardown"
    /\ UNCHANGED <<users, posts, clock, req, g_user>>

\* The title check that accepts the empty title.
title_error_accepts_empty(title) == None

\* The error create and update find in the form, or None.
title_error(title) ==
    IF title = "" THEN Some("Title is required.") ELSE None

\* The view create, called by the wrapped view.
create_view ==
    IF req.method = "POST"
    THEN LET error == title_error(req.form.title)
         IN  IF error # None
             THEN /\ UseDb(0)
                  /\ UNCHANGED <<posts, clock>>
                  /\ Render("blog/create.html", error)
             ELSE IF g_user = None
             THEN \* g.user["id"] on None: TypeError, answered with 500
                  /\ UseDb(1)
                  /\ UNCHANGED <<posts, clock, session>>
                  /\ resp' = abort(500)
             ELSE /\ UseDb(1)
                  /\ \E id \in FreePostIds(posts) : \E now \in clock..MaxClock :
                        /\ posts' = InsertPost(posts, id, now, req.form.title,
                                               req.form.body, Val(g_user).id)
                        /\ clock' = now
                  /\ resp' = redirect("blog.index")
                  /\ session' = session
    ELSE /\ UseDb(0)
         /\ UNCHANGED <<posts, clock>>
         /\ Render("blog/create.html", None)

create ==
    /\ pc = "view"
    /\ UNCHANGED cvars
    /\ req.endpoint = "blog.create"
    /\ IF login_required(g_user) = "redirect"
       THEN GuardRedirect
       ELSE create_view /\ UNCHANGED users
    /\ pc' = "teardown"
    /\ UNCHANGED <<req, g_user>>

\* The view update, called by the wrapped view.
update_view ==
    LET got == get_post(req.id, TRUE, g_user, posts, users)
    IN  IF got.code # 200
        THEN /\ UseDb(1)
             /\ posts' = posts
             /\ resp' = abort(got.code)
             /\ session' = session
        ELSE IF req.method = "POST"
             THEN LET error == title_error(req.form.title)
                  IN  IF error # None
                      THEN /\ UseDb(1)
                           /\ posts' = posts
                           /\ Render("blog/update.html", error)
                      ELSE /\ UseDb(2)
                           /\ posts' = UpdatePost(posts, req.id, req.form.title,
                                                  req.form.body)
                           /\ resp' = redirect("blog.index")
                           /\ session' = session
             ELSE /\ UseDb(1)
                  /\ posts' = posts
                  /\ Render("blog/update.html", None)

update ==
    /\ pc = "view"
    /\ UNCHANGED cvars
    /\ req.endpoint = "blog.update"
    /\ IF login_required(g_user) = "redirect"
       THEN GuardRedirect
       ELSE update_view /\ UNCHANGED <<users, clock>>
    /\ pc' = "teardown"
    /\ UNCHANGED <<req, g_user>>

\* The view delete, called by the wrapped view.
delete_view ==
    LET got == get_post(req.id, TRUE, g_user, posts, users)
    IN  IF got.code # 200
        THEN /\ UseDb(1)
             /\ posts' = posts
             /\ resp' = abort(got.code)
        ELSE /\ UseDb(2)
             /\ posts' = DeletePost(posts, req.id)
             /\ resp' = redirect("blog.index")

delete ==
    /\ pc = "view"
    /\ UNCHANGED cvars
    /\ req.endpoint = "blog.delete"
    /\ IF login_required(g_user) = "redirect"
       THEN GuardRedirect
       ELSE delete_view /\ UNCHANGED <<users, clock, session>>
    /\ pc' = "teardown"
    /\ UNCHANGED <<req, g_user>>

\* The response is sent and the application context is torn down: close_db
\* runs and g goes away with the request.
teardown ==
    /\ pc = "teardown"
    /\ UNCHANGED cvars
    /\ LET ctx == close_db(Ctx)
       IN  g_db' = ctx.g_db /\ conns' = ctx.conns
    /\ g_user' = None
    /\ req' = NoReq
    /\ resp' = NoResp
    /\ pc' = "idle"
    /\ UNCHANGED <<users, posts, clock, session>>

Init ==
    /\ users = {}
    /\ posts = {}
    /\ clock = 0
    /\ session = [c \in Clients |-> {}]
    /\ pc = "idle"
    /\ req = NoReq
    /\ g_user = None
    /\ g_db = None
    /\ conns = <<>>
    /\ resp = NoResp
    /\ workers = [w \in Workers |-> IdleWorker]
    /\ txn = None

Next ==
    \/ load_logged_in_user
    \/ register
    \/ login
    \/ logout
    \/ index
    \/ create
    \/ update
    \/ delete
    \/ teardown

Spec == Init /\ [][Next]_vars

\* ---------------------------------------------------- concurrent requests
\* Two workers handle requests at the same time, each on its own connection.
\* A view's statements are separate steps: what one worker reads may have
\* changed when it writes. The store lets one connection write at a time; a
\* write stays with its connection until commit publishes it, and closing a
\* connection drops what it did not commit.

\* The variables of the handling of one request at a time.
svars == <<pc, req, g_user, g_db, conns, resp>>

\* A create needs an id the bounded id space still has, counting the ids
\* the creates of the other workers will take.
ConcAdmissible(w, r) ==
    r.endpoint = "blog.create" =>
        Cardinality(FreePostIds(posts)) >
            Cardinality({v \in Workers \ {w} :
                            workers[v].req.endpoint = "blog.create"})

\* The first write statement of a connection takes the store's write lock
\* and keeps its effect as the connection's uncommitted tables.
begin_write(w, utbl, ptbl) == Some([owner |-> w, users |-> utbl, posts |-> ptbl])

\* A commit that publishes nothing and leaves the transaction open.
db_commit_missing(t) == [users |-> users, posts |-> posts, txn |-> t]

\* db.commit(): the uncommitted tables become the store's tables and the
\* write lock is released.
db_commit(t) == [users |-> Val(t).users, posts |-> Val(t).posts, txn |-> None]

\* db.close() by a connection with an uncommitted write drops the write.
db_close(w, t) == IF t # None /\ Val(t).owner = w THEN None ELSE t

\* A store without the constraint on user.username.
unique_username_unchecked(tbl, username) == TRUE

\* user.username UNIQUE: the insert of username is allowed.
unique_username(tbl, username) == \A u \in tbl : u.username # username

\* The salts the concurrent registrations draw, and that no time passes
\* between their inserts, keep the interleavings of two workers explorable.
ConcSalts == {s \in Salts : s = 1}

\* The endpoint a view redirects to after its commit.
success_target(endpoint) ==
    IF endpoint = "auth.register" THEN "auth.login" ELSE "blog.index"

\* Worker w takes a request and load_logged_in_user runs on a fresh g.
conc_load_logged_in_user(w) ==
    /\ workers[w].pc = "idle"
    /\ \E c \in Clients : \E r \in ConcRequests(c) :
          /\ ConcAdmissible(w, r)
          /\ workers' = [workers EXCEPT ![w] =
                [IdleWorker EXCEPT !.pc = "view", !.req = r,
                                   !.g_user = LoadedUser(session[c], users)]]
    /\ UNCHANGED <<users, posts, clock, session, txn>>
    /\ UNCHANGED svars

\* register up to the lookup of the username.
conc_register(w) ==
    LET r == workers[w].req
        error == register_error(r.form.username, r.form.password, users)
        page == render(session[r.client], "auth/register.html", error)
    IN  /\ workers[w].pc = "view"
        /\ r.endpoint = "auth.register"
        /\ workers' = [workers EXCEPT ![w] =
              IF error = None
              THEN [@ EXCEPT !.pc = "execute"]
              ELSE [@ EXCEPT !.pc = "teardown", !.resp = page.resp]]
        /\ session' = IF error = None THEN session
                      ELSE [session EXCEPT ![r.client] = page.session]
        /\ UNCHANGED <<users, posts, clock, txn>>
        /\ UNCHANGED svars

\* login: one SELECT, then the session is written.
conc_login(w) ==
    LET r == workers[w].req
        user == SelectUserByName(users, r.form.username)
        error == login_error(user, r.form.password)
        page == render(session[r.client], "auth/login.html", error)
    IN  /\ workers[w].pc = "view"
        /\ r.endpoint = "auth.login"
        /\ IF error = None
           THEN /\ session' = [session EXCEPT ![r.client] =
                        login_session(@, Val(user))]
                /\ workers' = [workers EXCEPT ![w] =
                        [@ EXCEPT !.pc = "teardown", !.resp = redirect("index")]]
           ELSE /\ session' = [session EXCEPT ![r.client] = page.session]
                /\ workers' = [workers EXCEPT ![w] =
                        [@ EXCEPT !.pc = "teardown", !.resp = page.resp]]
        /\ UNCHANGED <<users, posts, clock, txn>>
        /\ UNCHANGED svars

\* create up to its INSERT: the guard and the title check.
conc_create(w) ==
    LET r == workers[w].req
        error == title_error(r.form.title)
        page == render(session[r.client], "blog/create.html", error)
        guarded == login_required(workers[w].g_user) = "redirect"
    IN  /\ workers[w].pc = "view"
        /\ r.endpoint = "blog.create"
        /\ workers' = [workers EXCEPT ![w] =
              IF guarded
              THEN [@ EXCEPT !.pc = "teardown", !.resp = redirect("auth.login")]
              ELSE IF error # None
              THEN [@ EXCEPT !.pc = "teardown", !.resp = page.resp]
              ELSE IF workers[w].g_user = None
              THEN [@ EXCEPT !.pc = "teardown", !.resp = abort(500)]
              ELSE [@ EXCEPT !.pc = "execute"]]
        /\ session' = IF ~guarded /\ error # None
                      THEN [session EXCEPT ![r.client] = page.session]
                      ELSE session
        /\ UNCHANGED <<users, posts, clock, txn>>
        /\ UNCHANGED svars

\* update and delete up to their write: the guard, get_post and, in update,
\* the title check.
conc_get_post(w) ==
    LET r == workers[w].req
        got == get_post(r.id, TRUE, workers[w].g_user, posts, users)
        error == IF r.endpoint = "blog.update" THEN title_error(r.form.title)
                 ELSE None
        page == render(session[r.client], "blog/update.html", error)
        guarded == login_required(workers[w].g_user) = "redirect"
    IN  /\ workers[w].pc = "view"
        /\ r.endpoint \in {"blog.update", "blog.delete"}
        /\ workers' = [workers EXCEPT ![w] =
              IF guarded
              THEN [@ EXCEPT !.pc = "teardown", !.resp = redirect("auth.login")]
              ELSE IF got.code # 200
              THEN [@ EXCEPT !.pc = "teardown", !.resp = abort(got.code)]
              ELSE IF error # None
              THEN [@ EXCEPT !.pc = "teardown", !.post = got.post,
                             !.resp = page.resp]
              ELSE [@ EXCEPT !.pc = "execute", !.post = got.post]]
        /\ session' = IF ~guarded /\ got.code = 200 /\ error # None
                      THEN [session EXCEPT ![r.client] = page.session]
                      ELSE session
        /\ UNCHANGED <<users, posts, clock, txn>>
        /\ UNCHANGED svars

\* The view's write statement, once no other connection holds the write
\* lock. An INSERT of a username the table holds raises IntegrityError,
\* which the view does not catch: the request is answered with 500.
conc_execute(w) ==
    LET r == workers[w].req
    IN  /\ workers[w].pc = "execute"
        /\ txn = None
        /\ CASE r.endpoint = "auth.register" ->
                  IF unique_username(users, r.form.username)
                  THEN /\ \E salt \in ConcSalts :
                            txn' = begin_write(w,
                                      InsertUser(users, r.form.username,
                                          generate_password_hash(r.form.password, salt)),
                                      posts)
                       /\ workers' = [workers EXCEPT ![w].pc = "commit"]
                       /\ clock' = clock
                  ELSE /\ txn' = txn
                       /\ workers' = [workers EXCEPT ![w] =
                             [@ EXCEPT !.pc = "teardown", !.resp = abort(500)]]
                       /\ clock' = clock
             [] r.endpoint = "blog.create" ->
                  /\ \E id \in FreePostIds(posts) :
                        txn' = begin_write(w, users,
                                  InsertPost(posts, id, clock, r.form.title,
                                             r.form.body, Val(workers[w].g_user).id))
                  /\ clock' = clock
                  /\ workers' = [workers EXCEPT ![w].pc = "commit"]
             [] r.endpoint = "blog.update" ->
                  /\ txn' = begin_write(w, users,
                               UpdatePost(posts, r.id, r.form.title, r.form.body))
                  /\ workers' = [workers EXCEPT ![w].pc = "commit"]
                  /\ clock' = clock
             [] r.endpoint = "blog.delete" ->
                  /\ txn' = begin_write(w, users, DeletePost(posts, r.id))
                  /\ workers' = [workers EXCEPT ![w].pc = "commit"]
                  /\ clock' = clock
        /\ UNCHANGED <<users, posts, session>>
        /\ UNCHANGED svars

\* The write statement gives up waiting for the write lock another
\* connection holds: OperationalError, answered with 500.
conc_locked(w) ==
    /\ workers[w].pc = "execute"
    /\ txn # None
    /\ workers' = [workers EXCEPT ![w] =
          [@ EXCEPT !.pc = "teardown", !.resp = abort(500)]]
    /\ UNCHANGED <<users, posts, clock, session, txn>>
    /\ UNCHANGED svars

\* db.commit() and the redirect that follows it.
conc_commit(w) ==
    /\ workers[w].pc = "commit"
    /\ LET done == db_commit(txn)
       IN  /\ users' = done.users
           /\ posts' = done.posts
           /\ txn' = done.txn
    /\ workers' = [workers EXCEPT ![w] =
          [@ EXCEPT !.pc = "teardown",
                    !.resp = redirect(success_target(workers[w].req.endpoint))]]
    /\ UNCHANGED <<clock, session>>
    /\ UNCHANGED svars

\* The response is sent and close_db closes the worker's connection.
conc_teardown(w) ==
    /\ workers[w].pc = "teardown"
    /\ txn' = db_close(w, txn)
    /\ workers' = [workers EXCEPT ![w] = IdleWorker]
    /\ UNCHANGED <<users, posts, clock, session>>
    /\ UNCHANGED svars

InitConc ==
    /\ users = {}
    /\ posts = {}
    /\ clock = 0
    /\ session = [c \in Clients |-> {}]
    /\ pc = "idle"
    /\ req = NoReq
    /\ g_user = None
    /\ g_db = None
    /\ conns = <<>>
    /\ resp = NoResp
    /\ workers = [w \in Workers |-> IdleWorker]
    /\ txn = None

NextConc ==
    \/ \E w \in Workers : conc_load_logged_in_user(w)
    \/ \E w \in Workers : conc_register(w)
    \/ \E w \in Workers : conc_login(w)
    \/ \E w \in Workers : conc_create(w)
    \/ \E w \in Workers : conc_get_post(w)
    \/ \E w \in Workers : conc_execute(w)
    \/ \E w \in Workers : conc_locked(w)
    \/ \E w \in Workers : conc_commit(w)
    \/ \E w \in Workers : conc_teardown(w)

SpecConc == InitConc /\ [][NextConc]_vars

\* ------------------------------------------------------------ properties
Ids(tbl) == {p.id : p \in tbl}
Protected == {"blog.create", "blog.update", "blog.delete"}

\* The step in which the routed view of endpoint e runs and returns.
ViewStep(e) == pc = "view" /\ req.endpoint = e /\ pc' = "teardown"

\* The row of the user that authored post p.
AuthorOf(p) == CHOOSE u \in users : u.id = p.author_id

\* C1: an update or delete request for a post P made by a logged-in user
\* who is not P's author is answered with 403 and leaves P as it was: the
\* row is still there with the same title, body, created and author_id.
C1_NonAuthorWriteFails ==
    [][\A P \in posts :
          (/\ pc = "view"
           /\ req.endpoint \in {"blog.update", "blog.delete"}
           /\ req.id = P.id
           /\ g_user # None
           /\ Val(g_user).id # P.author_id)
          => (/\ resp' = abort(403)
              /\ P \in posts'
              /\ \A Q \in posts' : Q.id = P.id => Q = P)]_vars

\* A non-author's update POST with a valid title was answered with 403.
C1_Witness ==
    /\ pc = "teardown"
    /\ req.endpoint = "blog.update"
    /\ req.method = "POST"
    /\ req.form.title # ""
    /\ resp = abort(403)
    /\ g_user # None
    /\ \E P \in posts : P.id = req.id /\ P.author_id # Val(g_user).id

\* C2: for every post P and every user B, get_post(P.id, check_author=True)
\* with current user B aborts with 403 when B is not P's author and returns
\* P (joined with its author's username) when B is; the update view, which
\* makes this call, answers a GET accordingly.
C2_GetPostChecksAuthor ==
    /\ \A P \in posts : \A B \in users :
          get_post(P.id, TRUE, Some(B), posts, users) =
              IF B.id = P.author_id
              THEN [code |-> 200, post |-> Some(Joined(P, B))]
              ELSE [code |-> 403, post |-> None]
    /\ (/\ pc = "teardown"
        /\ req.endpoint = "blog.update"
        /\ req.method = "GET"
        /\ g_user # None)
       => \A P \in posts : P.id = req.id =>
             resp = IF Val(g_user).id = P.author_id
                    THEN render_template("blog/update.html", NoFlash)
                    ELSE abort(403)

\* The author fetched their own post while another user exists.
C2_Witness ==
    /\ pc = "teardown"
    /\ req.endpoint = "blog.update"
    /\ req.method = "GET"
    /\ resp = render_template("blog/update.html", NoFlash)
    /\ \E P \in posts : \E B \in users :
          P.id = req.id /\ P.author_id = Val(g_user).id /\ B.id # P.author_id

\* The user id the session of client c is bound to, or None.
Bound(c) == session_get(session[c], "user_id")

\* The step in which login succeeds for client c.
LoginSucceeds(c) ==
    ViewStep("auth.login") /\ req.client = c /\ resp' = redirect("index")

\* The step in which client c logs out.
LogsOut(c) == ViewStep("auth.logout") /\ req.client = c

\* C3: a successful login as user U opens a session bound to U; the binding
\* stays until that session is cleared, by logout (or by the next successful
\* login, which opens a new session); on every request load_logged_in_user
\* puts on g.user the row of the bound user, which never changes, and None
\* when the session is not bound, as it is from logout to the next
\* successful login.
C3_CurrentUserFollowsLogin ==
    [][\A c \in Clients :
          /\ LoginSucceeds(c) =>
                \E U \in users :
                    /\ U.username = req.form.username
                    /\ session_get(session'[c], "user_id") = Some(U.id)
          /\ LogsOut(c) => session_get(session'[c], "user_id") = None
          /\ (~LoginSucceeds(c) /\ ~LogsOut(c)) =>
                session_get(session'[c], "user_id") = Bound(c)
          /\ (pc = "idle" /\ pc' = "view" /\ req'.client = c) =>
                IF Bound(c) = None
                THEN g_user' = None
                ELSE \E U \in users : U.id = Val(Bound(c)) /\ g_user' = Some(U)
          /\ users \subseteq users']_vars

\* A request of a logged-in client has had its user resolved.
C3_Witness ==
    /\ pc = "view"
    /\ req.endpoint = "blog.index"
    /\ g_user # None
    /\ Bound(req.client) = Some(Val(g_user).id)

\* C4: when g.user is None a request to create, update or delete is answered
\* by the redirect to the login page and the view is not called: user table,
\* post table and session stay as they are; when g.user is a user the view is
\* called and the response is the view's.
C4_LoginRequiredGuards ==
    [][(pc = "view" /\ req.endpoint \in Protected) =>
          IF g_user = None
          THEN /\ resp' = redirect("auth.login")
               /\ UNCHANGED <<users, posts, clock, session>>
          ELSE /\ resp' # redirect("auth.login")
               /\ resp'.code \in {200, 302, 403, 404}
               /\ resp'.target \in {"blog/create.html", "blog/update.html",
                                    "blog.index", ""}]_vars

\* An anonymous create POST with a valid title was redirected to the login.
C4_Witness ==
    /\ pc = "teardown"
    /\ req.endpoint = "blog.create"
    /\ req.method = "POST"
    /\ req.form.title # ""
    /\ g_user = None
    /\ resp = redirect("auth.login")

\* C5: a register POST whose username is already registered, with any
\* non-empty password, is answered with the "already registered" error and
\* leaves the user table as it is: no row is added and the stored hash of the
\* existing user is unchanged.
C5_DuplicateRegistrationFails ==
    [][(/\ ViewStep("auth.register")
        /\ req.method = "POST"
        /\ req.form.password # ""
        /\ \E U \in users : U.username = req.form.username)
       => (/\ resp' = render_template("auth/register.html",
                  Some("User " \o req.form.username \o " is already registered."))
           /\ users' = users)]_vars

\* A second registration of alice was refused.
C5_Witness ==
    /\ pc = "teardown"
    /\ req.endpoint = "auth.register"
    /\ resp = render_template("auth/register.html",
                              Some("User alice is already registered."))
    /\ \E U \in users : U.username = "alice"

\* C6: a successful register of (username, password) stores a row whose hash
\* verifies that password and no other; rows are never changed or removed;
\* and a login POST for an existing username succeeds and binds the session
\* to that user's id exactly when the submitted password verifies against the
\* stored hash, and otherwise fails with "Incorrect password." leaving the
\* session as it is.
C6_RegisteredPairAuthenticates ==
    [][/\ (/\ ViewStep("auth.register")
           /\ resp' = redirect("auth.login"))
          => \E U \in users' \ users :
                /\ users' = users \cup {U}
                /\ U.username = req.form.username
                /\ \A pw \in Passwords \cup {""} :
                      check_password_hash(U.password, pw) <=> pw = req.form.password
       /\ users \subseteq users'
       /\ (ViewStep("auth.login") /\ req.method = "POST") =>
             \A U \in users : U.username = req.form.username =>
                IF \E salt \in Salts :
                      U.password = generate_password_hash(req.form.password, salt)
                THEN /\ resp' = redirect("index")
                     /\ session'[req.client] = {<<"user_id", U.id>>}
                ELSE /\ resp' = render_template("auth/login.html",
                                                Some("Incorrect password."))
                     /\ session' = session]_vars

\* A registered user logged in with the registered password.
C6_Witness ==
    /\ pc = "teardown"
    /\ req.endpoint = "auth.login"
    /\ resp = redirect("index")
    /\ \E U \in users :
          /\ U.username = req.form.username
          /\ session[req.client] = {<<"user_id", U.id>>}

\* Every post's author_id is the id of a row of the user table.
AuthorsExist == \A P \in posts : \E U \in users : U.id = P.author_id

\* C7: in every state every post's author_id references an existing user; a
\* post that appears has the id of the logged-in user of the creating request
\* as its author_id; and a post keeps its author_id in every step.
C7_AuthorReferencesUserAndIsFixed ==
    /\ AuthorsExist
    /\ [][/\ AuthorsExist'
          /\ \A Q \in posts' :
                Q.id \notin Ids(posts) =>
                    /\ ViewStep("blog.create")
                    /\ g_user # None
                    /\ Q.author_id = Val(g_user).id
          /\ \A P \in posts : \A Q \in posts' :
                P.id = Q.id => Q.author_id = P.author_id]_vars

\* The second user authored a post that has since been updated.
C7_Witness ==
    /\ pc = "teardown"
    /\ req.endpoint = "blog.update"
    /\ resp = redirect("blog.index")
    /\ \E P \in posts : P.id = req.id /\ P.author_id = 2 /\ AuthorOf(P).id = 2

\* C8: all calls of get_db() in one request return the one connection,
\* opened by the first call and not before; while the request runs that
\* connection executes statements; after teardown g.db is gone and
\* execute() on the request's connection fails with the "closed" error.
C8_ConnectionLifecycle ==
    /\ Len(conns) <= 1
    /\ g_db # None => (g_db = Some(1) /\ execute(conns, Val(g_db)) = "ok")
    /\ (pc # "idle" /\ g_db = None) => conns = <<>>
    /\ pc = "idle" =>
          /\ g_db = None
          /\ \A h \in DOMAIN conns : execute(conns, h) = "ProgrammingError: closed"

\* A request that opened the connection has been torn down.
C8_Witness ==
    /\ pc = "idle"
    /\ conns = <<"closed">>
    /\ posts # {}

\* C9: a post id goes from absent to present only in a create POST of a
\* logged-in user, who becomes its author; a present post's row changes only
\* in an update POST for that id by its author, and then only in title and
\* body; a present post goes away only in a delete for that id by its author.
C9_PostLifecycle ==
    [][\A i \in PostIds :
          LET before == {p \in posts : p.id = i}
              after == {p \in posts' : p.id = i}
          IN  /\ Cardinality(after) <= 1
              /\ (before = {} /\ after # {}) =>
                    /\ ViewStep("blog.create")
                    /\ req.method = "POST"
                    /\ g_user # None
                    /\ \A q \in after : q.author_id = Val(g_user).id
              /\ (before # {} /\ after # {} /\ after # before) =>
                    /\ ViewStep("blog.update")
                    /\ req.method = "POST"
                    /\ req.id = i
                    /\ g_user # None
                    /\ \A p \in before : \A q \in after :
                          /\ p.author_id = Val(g_user).id
                          /\ q.author_id = p.author_id
                          /\ q.created = p.created
              /\ (before # {} /\ after = {}) =>
                    /\ ViewStep("blog.delete")
                    /\ req.id = i
                    /\ g_user # None
                    /\ \A p \in before : p.author_id = Val(g_user).id]_vars

\* The author deleted one post while another post remains.
C9_Witness ==
    /\ pc = "teardown"
    /\ req.endpoint = "blog.delete"
    /\ resp = redirect("blog.index")
    /\ req.id \notin Ids(posts)
    /\ posts # {}

\* Every value g.user can take in the current state.
CurrentUsers == {None} \cup {Some(U) : U \in users}

\* C10: get_post aborts with 404 for an id no post has, whoever the current
\* user is (None included) and whether or not check_author is set, so before
\* any comparison with the current user; for an existing post and
\* check_author False it returns the post whoever the current user is; update
\* and delete, which make the call, answer 404 for an absent id.
C10_GetPostNotFoundFirst ==
    /\ \A i \in PostIds \ Ids(posts) : \A user \in CurrentUsers :
          \A check_author \in BOOLEAN :
              get_post(i, check_author, user, posts, users) =
                  [code |-> 404, post |-> None]
    /\ \A P \in posts : \A user \in CurrentUsers :
          get_post(P.id, FALSE, user, posts, users) =
              [code |-> 200, post |-> Some(Joined(P, AuthorOf(P)))]
    /\ (/\ pc = "teardown"
        /\ req.endpoint \in {"blog.update", "blog.delete"}
        /\ g_user # None
        /\ req.id \notin Ids(posts)
        /\ resp # redirect("blog.index"))
       => resp = abort(404)

\* A logged-in user's update of an absent id was answered with 404 while
\* posts of other ids exist.
C10_Witness ==
    /\ pc = "teardown"
    /\ req.endpoint = "blog.update"
    /\ g_user # None
    /\ resp = abort(404)
    /\ posts # {}

\* C11: update calls get_post(id) before it looks at the form: for a
\* logged-in user a missing id is answered with 404 and a post of another
\* author with 403, whatever the method and the title; for the author an
\* empty title is answered with "Title is required." and the post table stays
\* as it is; otherwise the row of that id gets the submitted title and body,
\* keeps created and author_id, and every other row is unchanged.
C11_UpdateChecksThenWrites ==
    [][(ViewStep("blog.update") /\ g_user # None) =>
          /\ req.id \notin Ids(posts) =>
                (resp' = abort(404) /\ posts' = posts)
          /\ \A P \in posts : P.id = req.id =>
                IF P.author_id # Val(g_user).id
                THEN resp' = abort(403) /\ posts' = posts
                ELSE IF req.method = "POST" /\ req.form.title = ""
                THEN /\ resp' = render_template("blog/update.html",
                                                Some("Title is required."))
                     /\ posts' = posts
                ELSE IF req.method = "POST"
                THEN /\ resp' = redirect("blog.index")
                     /\ posts' = (posts \ {P}) \cup
                           {[id |-> P.id, title |-> req.form.title,
                             body |-> req.form.body, created |-> P.created,
                             author_id |-> P.author_id]}
                ELSE /\ resp' = render_template("blog/update.html", NoFlash)
                     /\ posts' = posts]_vars

\* The author's update was written while a second post exists.
C11_Witness ==
    /\ pc = "teardown"
    /\ req.endpoint = "blog.update"
    /\ req.method = "POST"
    /\ resp = redirect("blog.index")
    /\ Cardinality(posts) = 2
    /\ \E P \in posts :
          P.id = req.id /\ P.title = req.form.title /\ P.body = req.form.body

\* C12: a create POST of a logged-in user with an empty title is answered
\* with "Title is required." and leaves the post table as it is; with any
\* other title, and any body (the empty one too), it adds exactly one row,
\* whose id no row had, whose title and body are the submitted ones, whose
\* author_id is the current user's id and whose created is the store's
\* timestamp of the insert.
C12_CreateInsertsOnePost ==
    [][(ViewStep("blog.create") /\ g_user # None /\ req.method = "POST") =>
          IF req.form.title = ""
          THEN /\ resp' = render_template("blog/create.html",
                                          Some("Title is required."))
               /\ posts' = posts
          ELSE /\ resp' = redirect("blog.index")
               /\ \E Q \in posts' :
                     /\ Q.id \notin Ids(posts)
                     /\ posts' = posts \cup {Q}
                     /\ Q.title = req.form.title
                     /\ Q.body = req.form.body
                     /\ Q.author_id = Val(g_user).id
                     /\ Q.created = clock'
                     /\ clock' >= clock]_vars

\* A post with an empty body was created next to an existing post.
C12_Witness ==
    /\ pc = "teardown"
    /\ req.endpoint = "blog.create"
    /\ req.method = "POST"
    /\ req.form.body = ""
    /\ resp = redirect("blog.index")
    /\ Cardinality(posts) = 2
    /\ \E Q \in posts : Q.title = req.form.title /\ Q.body = "" /\ Q.created = clock

\* C13: delete by the author passes get_post(id) and then removes exactly the
\* row of that id: the other rows stay as they are and no result of the index
\* query holds that id afterwards; once the id is absent, a delete or an
\* update of it by a logged-in user is answered with 404 and changes nothing.
C13_DeleteRemovesTheRow ==
    [][/\ (ViewStep("blog.delete") /\ g_user # None) =>
             \A P \in posts :
                 (P.id = req.id /\ P.author_id = Val(g_user).id) =>
                     /\ resp' = redirect("blog.index")
                     /\ posts' = posts \ {P}
                     /\ \A rows \in list_posts(posts', users') :
                           \A k \in DOMAIN rows : rows[k].id # req.id
       /\ (/\ pc = "view"
           /\ req.endpoint \in {"blog.update", "blog.delete"}
           /\ g_user # None
           /\ req.id \notin Ids(posts))
          => (resp' = abort(404) /\ posts' = posts)]_vars

\* The author deleted one of two posts; the other is still there.
C13_Witness ==
    /\ pc = "teardown"
    /\ req.endpoint = "blog.delete"
    /\ resp = redirect("blog.index")
    /\ Cardinality(posts) = 1
    /\ req.id \notin Ids(posts)
    /\ \A P \in posts : P.author_id = Val(g_user).id

\* C14: a register POST with an empty username is answered with "Username
\* is required.", and one with a username and an empty password with
\* "Password is required.", also when that username is already registered;
\* in both cases the user table stays as it is.  With a username that is not
\* registered and a password, exactly one row is added, holding the username
\* and a hash of the password; the response redirects to the login page and
\* the session stays as it is.
C14_RegisterValidatesThenInserts ==
    [][(ViewStep("auth.register") /\ req.method = "POST") =>
          LET username == req.form.username
              password == req.form.password
          IN  IF username = ""
              THEN /\ resp' = render_template("auth/register.html",
                                              Some("Username is required."))
                   /\ users' = users
              ELSE IF password = ""
              THEN /\ resp' = render_template("auth/register.html",
                                              Some("Password is required."))
                   /\ users' = users
              ELSE (\A U \in users : U.username # username) =>
                   /\ resp' = redirect("auth.login")
                   /\ session' = session
                   /\ \E U \in users' :
                         /\ U \notin users
                         /\ users' = users \cup {U}
                         /\ U.username = username
                         /\ \E salt \in Salts :
                               U.password = generate_password_hash(password, salt)]_vars

\* A registered username was submitted with an empty password.
C14_Witness ==
    /\ pc = "teardown"
    /\ req.endpoint = "auth.register"
    /\ req.form.password = ""
    /\ \E U \in users : U.username = req.form.username
    /\ resp = render_template("auth/register.html", Some("Password is required."))

\* The response of a login POST that failed with the given message.
LoginFailure(message) == render_template("auth/login.html", Some(message))

\* C15: a login POST is answered with "Incorrect username." exactly when no
\* user has the submitted username, whatever the password, and with
\* "Incorrect password." exactly when a user has it and the submitted
\* password does not verify against the stored hash; in both cases the
\* session stays as it is.
C15_LoginErrors ==
    [][(ViewStep("auth.login") /\ req.method = "POST") =>
          LET found == {U \in users : U.username = req.form.username}
          IN  /\ resp' = LoginFailure("Incorrect username.") <=> found = {}
              /\ resp' = LoginFailure("Incorrect password.") <=>
                    \E U \in found : ~check_password_hash(U.password, req.form.password)
              /\ resp' \in {LoginFailure("Incorrect username."),
                            LoginFailure("Incorrect password.")}
                    => session' = session]_vars

\* A logged-in client's login with an unknown username failed and the
\* session is still bound.
C15_Witness ==
    /\ pc = "teardown"
    /\ req.endpoint = "auth.login"
    /\ req.form.username = "bob"
    /\ req.form.password # ""
    /\ resp = LoginFailure("Incorrect username.")
    /\ Bound(req.client) # None

\* The session dicts a request may carry: no user_id, or the id of a user,
\* or an id no user has.
SessionDicts == {{}} \cup {{<<"user_id", i>>} : i \in 1..(Cardinality(users) + 1)}

\* load_logged_in_user yields None for a session without user_id or with an
\* id no user has, and the row of that id otherwise.
ResolvesSession ==
    \A s \in SessionDicts :
        LoadedUser(s, users) =
            IF s = {} \/ \A U \in users : <<"user_id", U.id>> \notin s
            THEN None
            ELSE Some(CHOOSE U \in users : <<"user_id", U.id>> \in s)

\* While the view of a request runs, g.user is what the hook resolved from
\* the session of that request's client.
ResolvedForRequest ==
    pc = "view" => g_user = LoadedUser(session[req.client], users)

\* C16: every request runs load_logged_in_user once, as its first step,
\* before the guard and the view, which run next and leave g.user alone; the
\* hook yields None when the session holds no user_id or an id no user has,
\* and the row of that id otherwise; so what the guard tests is the identity
\* resolved in the same request.
C16_UserResolvedOncePerRequest ==
    /\ ResolvesSession
    /\ ResolvedForRequest
    /\ [][/\ ResolvesSession'
          /\ ResolvedForRequest'
          /\ pc = "idle" =>
                (pc' = "view" /\ g_user' = LoadedUser(session[req'.client], users))
          /\ pc = "view" => (pc' = "teardown" /\ g_user' = g_user /\ req' = req)
          /\ pc = "teardown" => pc' = "idle"
          /\ (pc = "view" /\ req.endpoint \in Protected) =>
                (resp' = redirect("auth.login")
                    <=> LoadedUser(session[req.client], users) = None)]_vars

\* The second user's request to a protected view has had its user resolved.
C16_Witness ==
    /\ pc = "view"
    /\ req.endpoint \in Protected
    /\ g_user # None
    /\ Val(g_user).id = 2
    /\ Bound(req.client) = Some(2)

\* C17: the index view answers every client, logged in or not, with the
\* list of the posts that exist: each post once, with its own columns and the
\* username of its author, and no entry created earlier than the entry after
\* it.
C17_IndexListsPostsNewestFirst ==
    (pc = "teardown" /\ req.endpoint = "blog.index") =>
        LET rows == resp.data
        IN  /\ resp.code = 200
            /\ resp.target = "blog/index.html"
            /\ Len(rows) = Cardinality(posts)
            /\ \A P \in posts : \E k \in DOMAIN rows :
                  /\ rows[k] = Joined(P, AuthorOf(P))
                  /\ \A j \in DOMAIN rows : rows[j].id = P.id => j = k
            /\ \A k \in DOMAIN rows : \E P \in posts : rows[k].id = P.id
            /\ \A k \in 1..(Len(rows) - 1) : rows[k].created >= rows[k + 1].created

\* An anonymous client was shown two posts created at different times.
C17_Witness ==
    /\ pc = "teardown"
    /\ req.endpoint = "blog.index"
    /\ g_user = None
    /\ Len(resp.data) = 2
    /\ resp.data[1].created > resp.data[2].created

\* The routes whose view writes to the store.
WriteRoutes == {"auth.register", "blog.create", "blog.update", "blog.delete"}

\* The rows by which two states of a table differ.
Changed(a, b) == (a \ b) \cup (b \ a)

\* An open transaction belongs to a worker that has executed its one write
\* statement and has not answered yet.
OpenTxnAwaitsCommit ==
    /\ txn # None =>
          LET o == Val(txn).owner
          IN  /\ workers[o].pc = "commit"
              /\ workers[o].req.endpoint \in WriteRoutes
              /\ workers[o].resp = NoResp
    /\ \A w \in Workers :
          /\ workers[w].pc = "commit" => (txn # None /\ Val(txn).owner = w)
          /\ workers[w].pc \in {"idle", "teardown"} =>
                (txn = None \/ Val(txn).owner # w)

\* C18: each write is immediately committed. A transaction is opened by one
\* write statement of a request to register, create, update or delete; no
\* second statement joins it; it ends only by the commit of the same
\* request, which publishes the write and answers with the redirect, so no
\* request reaches its teardown with an uncommitted write; and the tables
\* change in no other way.
C18_WriteIsCommittedAtOnce ==
    /\ OpenTxnAwaitsCommit
    /\ [][/\ OpenTxnAwaitsCommit'
          /\ (txn = None /\ txn' # None) =>
                /\ Val(txn').users = users \/ Val(txn').posts = posts
                /\ workers[Val(txn').owner].pc = "execute"
          /\ txn # None => (txn' = txn \/ txn' = None)
          /\ (txn # None /\ txn' = None) =>
                LET o == Val(txn).owner
                IN  /\ users' = Val(txn).users
                    /\ posts' = Val(txn).posts
                    /\ workers'[o].pc = "teardown"
                    /\ workers'[o].resp =
                          redirect(success_target(workers[o].req.endpoint))
          /\ (users' # users \/ posts' # posts) => (txn # None /\ txn' = None)
         ]_vars

\* A delete has been committed and answered while the other worker is in
\* the middle of its own request.
C18_Witness ==
    \E w \in Workers : \E v \in Workers \ {w} :
        /\ workers[w].pc = "teardown"
        /\ workers[w].req.endpoint = "blog.delete"
        /\ workers[w].resp = redirect("blog.index")
        /\ workers[w].req.id \notin Ids(posts)
        /\ workers[v].pc = "execute"
        /\ txn = None

\* No two rows of a user table have the same username.
UniqueUsernames(tbl) ==
    \A u \in tbl : \A v \in tbl : u.username = v.username => u = v

\* C19: under any interleaving of concurrent register requests, whose
\* lookup, insert and commit are separate steps, the user table never holds
\* two rows with the same username, committed or not: of the registrations
\* of one username at most one creates a row.
C19_UsernamesStayUnique ==
    /\ UniqueUsernames(users)
    /\ txn # None => UniqueUsernames(Val(txn).users)

\* A registration found its username free, and before its insert the other
\* worker's registration of the same username was committed.
C19_Witness ==
    \E w \in Workers : \E v \in Workers \ {w} :
        /\ workers[w].pc = "execute"
        /\ workers[w].req.endpoint = "auth.register"
        /\ workers[v].req.endpoint = "auth.register"
        /\ workers[v].req.form.username = workers[w].req.form.username
        /\ workers[v].resp = redirect("auth.login")
        /\ \E u \in users : u.username = workers[w].req.form.username
        /\ txn = None

\* Worker w passes the checks of update or delete in this step.
PassesCheck(w) ==
    /\ workers[w].req.endpoint \in {"blog.update", "blog.delete"}
    /\ workers[w].pc = "view"
    /\ workers'[w].pc = "execute"

\* Worker w executes the write statement of update or delete in this step.
ExecutesWrite(w) ==
    /\ workers[w].req.endpoint \in {"blog.update", "blog.delete"}
    /\ workers[w].pc = "execute"
    /\ workers'[w].pc = "commit"

\* The post of the worker's request exists and the worker's user wrote it.
OwnPostExists(w) ==
    /\ workers[w].g_user # None
    /\ \E P \in posts :
          /\ P.id = workers[w].req.id
          /\ P.author_id = Val(workers[w].g_user).id

\* C20 as claimed: under any interleaving of concurrent create, update and
\* delete requests, every update or delete that goes on to the success
\* redirect executes its write on a post that exists and is authored by the
\* requesting user at the moment the write executes.
C20_WriteOnOwnExistingPost ==
    [][\A w \in Workers : ExecutesWrite(w) => OwnPostExists(w)]_vars

\* C20 as amended: every update or delete that answers with the success
\* redirect passed get_post earlier in the same request, when the post
\* existed and was authored by the requesting user; its write changes no row
\* but the one with the requested id, and no row at all if the post has been
\* deleted since the check; the request is answered with the redirect to the
\* index all the same.
C20_WriteFollowsEarlierCheck ==
    [][\A w \in Workers :
          /\ PassesCheck(w) => OwnPostExists(w)
          /\ ExecutesWrite(w) =>
                /\ txn = None /\ txn' # None /\ Val(txn').owner = w
                /\ \A P \in Changed(posts, Val(txn').posts) :
                      P.id = workers[w].req.id
                /\ workers[w].req.id \notin Ids(posts) => Val(txn').posts = posts
                /\ workers[w].req.endpoint = "blog.delete" =>
                      workers[w].req.id \notin Ids(Val(txn').posts)
                /\ workers[w].post # None
                /\ Val(workers[w].post).id = workers[w].req.id
                /\ Val(workers[w].post).author_id = Val(workers[w].g_user).id
          /\ (workers[w].req.endpoint \in {"blog.update", "blog.delete"}
                /\ workers[w].pc = "commit" /\ workers'[w].pc # "commit") =>
                workers'[w].resp = redirect("blog.index")
      ]_vars

\* A delete has executed on a post the other worker's delete had removed
\* after this worker's check: its write changed no row and awaits commit.
C20_Witness ==
    \E w \in Workers :
        /\ workers[w].pc = "commit"
        /\ workers[w].req.endpoint = "blog.delete"
        /\ workers[w].req.id \notin Ids(posts)
        /\ txn # None
        /\ Val(txn).owner = w
        /\ Val(txn).posts = posts

\* C21: a login that succeeds while the session is bound to another user
\* replaces the whole session by one that holds the new user's id and
\* nothing else; the next requests of that client run with the new user as
\* g.user, and update and delete answer 403 exactly for the posts the new
\* user did not write; a login that fails leaves the session bound to the
\* user it was bound to.
C21_ReloginRebinds ==
    [][\A c \in Clients :
          /\ LoginSucceeds(c) =>
                \E U \in users :
                    /\ U.username = req.form.username
                    /\ session'[c] = {<<"user_id", U.id>>}
          /\ (ViewStep("auth.login") /\ req.client = c
                /\ resp' # redirect("index")) =>
                session_get(session'[c], "user_id") = Bound(c)
          /\ (pc = "idle" /\ pc' = "view" /\ req'.client = c) =>
                IF Bound(c) = None
                THEN g_user' = None
                ELSE \E U \in users : U.id = Val(Bound(c)) /\ g_user' = Some(U)
          /\ (pc = "view" /\ req.client = c /\ Bound(c) # None
                /\ req.endpoint \in {"blog.update", "blog.delete"}) =>
                \A P \in posts : P.id = req.id =>
                    (resp' = abort(403) <=> P.author_id # Val(Bound(c)))
      ]_vars

\* A login succeeded in a request that began with the session bound to
\* another user, who has written a post.
C21_Witness ==
    /\ pc = "teardown"
    /\ req.endpoint = "auth.login"
    /\ resp = redirect("index")
    /\ g_user # None
    /\ Bound(req.client) # None
    /\ Val(Bound(req.client)) # Val(g_user).id
    /\ \E P \in posts : P.author_id = Val(g_user).id

\* The step in which a view runs and answers a request that is not a
\* successful write, login or logout: a GET of the index or of a form, a
\* guard redirect, a form sent back with a flashed validation, conflict or
\* authentication error, or a 404 or 403.
AnswersWithoutEffect ==
    /\ pc = "view"
    /\ pc' = "teardown"
    /\ \/ (req.method = "GET" /\ req.endpoint # "auth.logout")
       \/ (req.endpoint \in Protected /\ g_user = None)
       \/ resp'.flash # NoFlash
       \/ resp'.code \in {403, 404}

\* C22: the user table changes only in a register POST answered with the
\* redirect to the login page, the post table only in a create, update or
\* delete POST answered with the redirect to the index, and the session only
\* in a successful login or a logout, and then only the sender's; every
\* other request leaves users, posts and session as they were.
C22_EffectsOnlyOnSuccess ==
    [][/\ users' # users =>
             /\ ViewStep("auth.register")
             /\ req.method = "POST"
             /\ resp' = redirect("auth.login")
       /\ posts' # posts =>
             /\ \E e \in Protected : ViewStep(e)
             /\ req.method = "POST"
             /\ resp' = redirect("blog.index")
       /\ session' # session =>
             /\ LoginSucceeds(req.client) \/ LogsOut(req.client)
             /\ \A c \in Clients \ {req.client} : session'[c] = session[c]
       /\ AnswersWithoutEffect => UNCHANGED <<users, posts, session>>
      ]_vars

\* A login with a wrong password has been answered with its flashed error
\* while the session is bound and a post exists.
C22_Witness ==
    /\ pc = "teardown"
    /\ req.endpoint = "auth.login"
    /\ req.method = "POST"
    /\ resp = render_template("auth/login.html", Some("Incorrect password."))
    /\ Bound(req.client) # None
    /\ posts # {}

====
